---- MODULE Spec2Model ----
(***************************************************************************)
(* Model of two parts of the router:                                       *)
(*   - FetchService::call (apollo-router/src/services/fetch_service.rs),   *)
(*     the dispatch of one fetch node to a subgraph service;               *)
(*   - the well-formedness checks of operations                            *)
(*     (apollo-federation/src/operation/integrity.rs).                     *)
(* Spec      : one dispatch call, every configuration and every request.   *)
(* SpecConc  : NCalls dispatch calls interleaved at their suspension       *)
(*             points.                                                     *)
(* SpecWF    : operations built, corrupted and validated.                  *)
(***************************************************************************)
EXTENDS Integers, Sequences, FiniteSets, TLC

VARIABLES
    factory,    \* FetchServiceFactory: the shared configuration
    pc,         \* per call: where the call is
    req,        \* per call: the FetchRequest it was given
    fut,        \* per call: what the async block captured (the future's state)
    steps,      \* per call: the steps performed so far, in order
    wire,       \* per call: the transport invoked and the request handed to it
    env,        \* per call: what the collaborators answered
    result,     \* per call: what the future resolved to
    op,         \* validator: the operation under check
    target,     \* validator: the schema the operation is checked against
    corrupted,  \* validator: the one corruption applied to the operation
    verdict,    \* validator: the result of Operation::is_well_formed
    site        \* validator: what a debug_check!(..) call site did

vars == <<factory, pc, req, fut, steps, wire, env, result,
          op, target, corrupted, verdict, site>>

fetchVars == <<factory, pc, req, fut, steps, wire, env, result>>
wfVars == <<op, target, corrupted, verdict, site>>

(***************************************************************************)
(* Option and Result values.                                               *)
(***************************************************************************)
None == [tag |-> "None"]
Some(x) == [tag |-> "Some", val |-> x]
Ok(x) == [tag |-> "Ok", val |-> x]
Err(e) == [tag |-> "Err", val |-> e]

(***************************************************************************)
(* Bounds.                                                                 *)
(***************************************************************************)
\* Number of dispatch calls that run concurrently in SpecConc.
NCalls == 2
\* Number of selections an operation tree may hold in SpecWF.
MaxNodes == 3

CallIds == 1..NCalls

\* Service names known to the planner: a GraphQL subgraph and a connector.
Names == {"graph", "conn"}

(***************************************************************************)
(* The configuration bound by the factory.                                 *)
(***************************************************************************)
\* schema: the names that have an address; subgraph_schemas: the names that
\* have a validated schema; subgraph_service_factory: the names that have a
\* transport.
Factories ==
    [schema : [urls : SUBSET Names],
     subgraph_schemas : SUBSET Names,
     subgraph_service_factory : SUBSET Names,
     connectors : {"connectors"}]

\* FetchServiceFactory::create: the dispatcher shares the factory's fields.
FactoryCreate(f) ==
    [service_factory |-> f.subgraph_service_factory,
     schema |-> f.schema,
     subgraph_schemas |-> f.subgraph_schemas,
     connectors |-> f.connectors]

\* Schema::subgraph_url
SubgraphUrl(schema, name) ==
    IF name \in schema.urls THEN Some(<<"url", name>>) ELSE None

\* SubgraphServiceFactory::create
ServiceFactoryCreate(sf, name) ==
    IF name \in sf THEN Some(<<"service", name>>) ELSE None

(***************************************************************************)
(* Requests.                                                               *)
(***************************************************************************)
PlainProtocol == [kind |-> "Plain"]
RestFetch(parent, connector) ==
    [kind |-> "RestFetch",
     connector_service_name |-> connector,
     parent_service_name |-> parent]

Protocols ==
    {PlainProtocol} \cup {RestFetch(p, k) : p \in Names, k \in Names}

\* source_node: none, a connector descriptor, or another kind of source.
SourceNodes == {None, Some("Connect"), Some("Graphql")}

\* The request of the call working on accumulated data d. hasEntity: whether
\* the data holds an entity at the required path; ctx: whether contextual
\* arguments apply.
FetchRequest(d, hasEntity, ctx, service, protocol, source) ==
    [fetch_node |->
        [operation |-> <<"operation", d>>,
         operation_kind |-> "query",
         operation_name |-> Some(<<"name", d>>),
         service_name |-> service,
         protocol |-> protocol,
         source_node |-> source,
         schema_aware_hash |-> <<"hash", d>>,
         authorization |-> <<"authorization", d>>,
         id |-> <<"id", d>>],
     supergraph_request |-> <<"supergraph_request", d>>,
     data |-> <<"data", d>>,
     has_entity |-> hasEntity,
     has_context |-> ctx,
     current_dir |-> <<"dir", d>>,
     context |-> <<"context", d>>]

Requests(d) ==
    {FetchRequest(d, e, x, s, p, src) :
        e \in BOOLEAN, x \in BOOLEAN, s \in Names,
        p \in Protocols, src \in SourceNodes}

\* Variables::new
VariablesNew(request) ==
    IF request.has_entity
    THEN Some([variables |-> <<"variables", request.data>>,
               inverted_paths |-> <<"paths", request.data>>,
               contextual_arguments |->
                   IF request.has_context
                   THEN Some(<<"ctx", request.data>>) ELSE None])
    ELSE None

\* Operation::as_serialized
AsSerialized(operation) == <<"raw", operation>>

\* build_operation_with_aliasing(..) then serialize().no_indent()
SerializeAliased(operation, ctxArg) == <<"aliased", operation, ctxArg>>

EmptyObject == <<"object">>

(***************************************************************************)
(* FetchService::call, the part that runs before the future is returned.   *)
(***************************************************************************)
ServiceNamesSwapped(node) ==
    IF node.protocol.kind = "RestFetch"
    THEN [service_name |-> node.protocol.connector_service_name,
          subgraph_service_name |-> node.protocol.parent_service_name]
    ELSE [service_name |-> node.service_name,
          subgraph_service_name |-> node.service_name]

\* The semantic service name (service_name) and the name put in the outbound
\* request (subgraph_service_name).
ServiceNames(node) ==
    IF node.protocol.kind = "RestFetch"
    THEN [service_name |-> node.protocol.parent_service_name,
          subgraph_service_name |-> node.protocol.connector_service_name]
    ELSE [service_name |-> node.service_name,
          subgraph_service_name |-> node.service_name]

AliasedOperationSwapped(self, node, contextual_arguments, service_name, aliasOk) ==
    IF contextual_arguments.tag = "Some"
    THEN IF service_name \in self.subgraph_schemas
         THEN IF aliasOk
              THEN [text |-> AsSerialized(node.operation), alias |-> "ok"]
              ELSE [text |-> SerializeAliased(node.operation,
                                              contextual_arguments.val),
                    alias |-> "err"]
         ELSE [text |-> AsSerialized(node.operation), alias |-> "no_schema"]
    ELSE [text |-> AsSerialized(node.operation), alias |-> "absent"]

AliasedOperationIgnoresSchema(self, node, contextual_arguments, service_name, aliasOk) ==
    IF contextual_arguments.tag = "Some"
    THEN IF aliasOk
         THEN [text |-> SerializeAliased(node.operation,
                                         contextual_arguments.val),
               alias |-> "ok"]
         ELSE [text |-> AsSerialized(node.operation), alias |-> "err"]
    ELSE [text |-> AsSerialized(node.operation), alias |-> "absent"]

\* The operation text of the outbound request. aliasOk is the answer of
\* build_operation_with_aliasing when it is asked. alias records what
\* happened: "absent" (no contextual arguments), "no_schema", "ok", "err"
\* ("none" while the call has not come to it).
AliasedOperation(self, node, contextual_arguments, service_name, aliasOk) ==
    IF contextual_arguments.tag = "Some"
    THEN IF service_name \in self.subgraph_schemas
         THEN IF aliasOk
              THEN [text |-> SerializeAliased(node.operation,
                                              contextual_arguments.val),
                    alias |-> "ok"]
              ELSE [text |-> AsSerialized(node.operation), alias |-> "err"]
         ELSE [text |-> AsSerialized(node.operation), alias |-> "no_schema"]
    ELSE [text |-> AsSerialized(node.operation), alias |-> "absent"]

BuildSubgraphRequestDefaults(request, uri, text, variables, subgraph_service_name) ==
    [supergraph_request |-> request.supergraph_request,
     method |-> "POST",
     uri |-> uri,
     body |-> [query |-> text,
               operation_name |-> request.fetch_node.operation_name,
               variables |-> variables],
     subgraph_name |-> subgraph_service_name,
     operation_kind |-> request.fetch_node.operation_kind,
     context |-> request.context,
     query_hash |-> <<"hash", 0>>,
     authorization |-> <<"authorization", 0>>]

\* SubgraphRequest::builder() ... .build(), then query_hash and authorization.
BuildSubgraphRequest(request, uri, text, variables, subgraph_service_name) ==
    [supergraph_request |-> request.supergraph_request,
     method |-> "POST",
     uri |-> uri,
     body |-> [query |-> text,
               operation_name |-> request.fetch_node.operation_name,
               variables |-> variables],
     subgraph_name |-> subgraph_service_name,
     operation_kind |-> request.fetch_node.operation_kind,
     context |-> request.context,
     query_hash |-> request.fetch_node.schema_aware_hash,
     authorization |-> request.fetch_node.authorization]

AddressLookupBySubgraphName(names) == names.subgraph_service_name

\* The name the address is looked up by: schema.subgraph_url(service_name).
AddressLookupName(names) == names.service_name

\* The name the transport capability is looked up by: sns.
TransportLookupName(names) == names.service_name

\* What the call leaves behind: pc "empty" (the short-circuit future),
\* "panicked", or "ready" (the async block, with what it captured).
CallEnds(pcv, stepsv, aliasv, futv) ==
    [pc |-> pcv, steps |-> stepsv, alias |-> aliasv, fut |-> futv]

MissingWiringAbsorbed(stepsv, aliasv) == CallEnds("empty", stepsv, aliasv, None)

\* panic!(..) of the address lookup and expect(..) of the transport lookup:
\* the call unwinds and returns no future.
MissingWiring(stepsv, aliasv) == CallEnds("panicked", stepsv, aliasv, None)

\* The call from the service names on, with the resolved variables v.
CallWithVariables(self, request, v, aliasOk) ==
    LET node == request.fetch_node
        names == ServiceNames(node)
        uri == SubgraphUrl(self.schema, AddressLookupName(names))
    IN
    IF uri.tag = "None"
    THEN MissingWiring(<<"variables", "names", "uri">>, "none")
    ELSE
    LET aliased == AliasedOperation(self, node, v.contextual_arguments,
                                    names.service_name, aliasOk)
        subgraph_request ==
            BuildSubgraphRequest(request, uri.val, aliased.text, v.variables,
                                 names.subgraph_service_name)
        sns == TransportLookupName(names)
        service == ServiceFactoryCreate(self.service_factory, sns)
        done == <<"variables", "names", "uri", "alias", "request", "create">>
    IN
    IF service.tag = "None"
    THEN MissingWiring(done, aliased.alias)
    ELSE CallEnds("ready", done, aliased.alias,
            Some([service |-> service.val,
                  subgraph_request |-> subgraph_request,
                  sns |-> sns,
                  aqs |-> aliased.text,
                  paths |-> v.inverted_paths,
                  variables |-> v.variables,
                  source_node |-> node.source_node,
                  connectors |-> self.connectors]))

FetchServiceCallUnwrapOrDefault(self, request, aliasOk) ==
    LET resolved == VariablesNew(request) IN
    CallWithVariables(self, request,
        IF resolved.tag = "None"
        THEN [variables |-> <<"object">>, inverted_paths |-> <<>>,
              contextual_arguments |-> None]
        ELSE resolved.val,
        aliasOk)

FetchServiceCallWiringFirst(self, request, aliasOk) ==
    LET resolved == VariablesNew(request)
        names == ServiceNames(request.fetch_node)
    IN
    IF SubgraphUrl(self.schema, names.service_name).tag = "None"
    THEN MissingWiring(<<"names", "uri">>, "none")
    ELSE IF resolved.tag = "None"
    THEN CallEnds("empty", <<"names", "uri", "variables">>, "none", None)
    ELSE CallWithVariables(self, request, resolved.val, aliasOk)

FetchServiceCall(self, request, aliasOk) ==
    LET resolved == VariablesNew(request) IN
    IF resolved.tag = "None"
    THEN CallEnds("empty", <<"variables">>, "none", None)
    ELSE CallWithVariables(self, request, resolved.val, aliasOk)

FactoryAfterCallTakesService(f, request) ==
    [f EXCEPT !.subgraph_service_factory =
        @ \ {ServiceNames(request.fetch_node).service_name}]

\* The call takes &mut self and assigns nothing; it clones the shared fields.
FactoryAfterCall(f, request) == f

CallInvokesEagerly(c, request, aliasOk) ==
    /\ pc[c] = "idle"
    /\ LET r == FetchServiceCall(FactoryCreate(factory), request, aliasOk) IN
        /\ pc' = [pc EXCEPT ![c] = r.pc]
        /\ steps' = [steps EXCEPT ![c] =
                IF r.pc = "ready" THEN Append(r.steps, "invoke") ELSE r.steps]
        /\ fut' = [fut EXCEPT ![c] = r.fut]
        /\ env' = [env EXCEPT ![c].alias = r.alias]
        /\ wire' = [wire EXCEPT ![c] =
                IF r.pc = "ready"
                THEN Some([service |-> r.fut.val.service,
                           request |-> r.fut.val.subgraph_request])
                ELSE None]
    /\ req' = [req EXCEPT ![c] = Some(request)]
    /\ factory' = FactoryAfterCall(factory, request)
    /\ UNCHANGED <<result, wfVars>>

Call(c, request, aliasOk) ==
    /\ pc[c] = "idle"
    /\ LET r == FetchServiceCall(FactoryCreate(factory), request, aliasOk) IN
        /\ pc' = [pc EXCEPT ![c] = r.pc]
        /\ steps' = [steps EXCEPT ![c] = r.steps]
        /\ fut' = [fut EXCEPT ![c] = r.fut]
        /\ env' = [env EXCEPT ![c].alias = r.alias]
    /\ req' = [req EXCEPT ![c] = Some(request)]
    /\ factory' = FactoryAfterCall(factory, request)
    /\ UNCHANGED <<wire, result, wfVars>>

(***************************************************************************)
(* The futures the call returns.                                           *)
(***************************************************************************)
\* async { Ok((Value::Object(Object::default()), Vec::new())) }
EmptyResponse == Ok([value |-> EmptyObject, second |-> <<>>])

PollEmpty(c) ==
    /\ pc[c] = "empty"
    /\ pc' = [pc EXCEPT ![c] = "done"]
    /\ result' = [result EXCEPT ![c] = EmptyResponse]
    /\ UNCHANGED <<factory, req, fut, steps, wire, env, wfVars>>

\* Whether the async block runs process_source_node.
HasConnectNode(f) == f.source_node = Some("Connect")

\* FetchNode::subgraph_fetch hands the request to the captured service.
Invoke(c, f, before) ==
    /\ pc' = [pc EXCEPT ![c] = "fetch"]
    /\ steps' = [steps EXCEPT ![c] = steps[c] \o before \o <<"invoke">>]
    /\ wire' = [wire EXCEPT ![c] =
                    Some([service |-> f.service,
                          request |-> f.subgraph_request])]

PollTransportFirst(c) ==
    /\ pc[c] = "ready"
    /\ IF HasConnectNode(fut[c].val)
       THEN /\ pc' = [pc EXCEPT ![c] = "pre"]
            /\ steps' = [steps EXCEPT ![c] = steps[c] \o <<"invoke", "pre">>]
            /\ wire' = [wire EXCEPT ![c] =
                            Some([service |-> fut[c].val.service,
                                  request |-> fut[c].val.subgraph_request])]
       ELSE Invoke(c, fut[c].val, <<>>)
    /\ UNCHANGED <<factory, req, fut, env, result, wfVars>>

\* First poll of the async block.
Poll(c) ==
    /\ pc[c] = "ready"
    /\ IF HasConnectNode(fut[c].val)
       THEN /\ pc' = [pc EXCEPT ![c] = "pre"]
            /\ steps' = [steps EXCEPT ![c] = Append(steps[c], "pre")]
            /\ UNCHANGED wire
       ELSE Invoke(c, fut[c].val, <<>>)
    /\ UNCHANGED <<factory, req, fut, env, result, wfVars>>

PreDonePropagates(c, outcome) ==
    /\ pc[c] = "pre"
    /\ env' = [env EXCEPT ![c].pre = outcome]
    /\ IF outcome = "ok"
       THEN Invoke(c, fut[c].val, <<"pre_done">>) /\ UNCHANGED result
       ELSE /\ pc' = [pc EXCEPT ![c] = "done"]
            /\ steps' = [steps EXCEPT ![c] = Append(steps[c], "pre_done")]
            /\ result' = [result EXCEPT ![c] = Err(<<"connector", outcome>>)]
            /\ UNCHANGED wire
    /\ UNCHANGED <<factory, req, fut, wfVars>>

\* let _ = process_source_node(..).await: process_source_node answers, the
\* outcome is dropped and the async block goes on to subgraph_fetch.
PreDone(c, outcome) ==
    /\ pc[c] = "pre"
    /\ env' = [env EXCEPT ![c].pre = outcome]
    /\ Invoke(c, fut[c].val, <<"pre_done">>)
    /\ UNCHANGED <<factory, req, fut, result, wfVars>>

\* FetchNode::subgraph_fetch: what it returns once the transport answered.
SubgraphFetch(f, w, outcome) ==
    IF outcome = "ok"
    THEN [value |-> <<"merged", f.paths, <<"response", w.service, w.request.body>> >>,
          second |-> <<>>]
    ELSE [value |-> <<"null">>,
          second |-> << <<"fetch_error", f.sns>> >>]

FutureOutputPropagates(fetched, outcome) ==
    IF outcome = "err" THEN Err(fetched.second) ELSE Ok(fetched)

\* Ok(FetchNode::subgraph_fetch(..).await)
FutureOutput(fetched, outcome) == Ok(fetched)

TransportRespond(c, outcome) ==
    /\ pc[c] = "fetch"
    /\ env' = [env EXCEPT ![c].transport = outcome]
    /\ pc' = [pc EXCEPT ![c] = "done"]
    /\ steps' = [steps EXCEPT ![c] = steps[c] \o <<"respond", "merge">>]
    /\ result' = [result EXCEPT ![c] =
            FutureOutput(SubgraphFetch(fut[c].val, wire[c].val, outcome), outcome)]
    /\ UNCHANGED <<factory, req, fut, wire, wfVars>>

\* The caller abandons the future before it completed.
Drop(c) ==
    /\ pc[c] \in {"empty", "ready", "pre", "fetch"}
    /\ pc' = [pc EXCEPT ![c] = "dropped"]
    /\ UNCHANGED <<factory, req, fut, steps, wire, env, result, wfVars>>

Outcomes == {"ok", "err"}

NoEnv == [alias |-> "none", pre |-> "none", transport |-> "none"]

\* The validator's variables while the dispatcher is modelled.
WfIdle ==
    /\ op = None
    /\ target = "S1"
    /\ corrupted = None
    /\ verdict = None
    /\ site = None

FetchInit(fs) ==
    /\ factory \in fs
    /\ pc = [c \in CallIds |-> "idle"]
    /\ req = [c \in CallIds |-> None]
    /\ fut = [c \in CallIds |-> None]
    /\ steps = [c \in CallIds |-> <<>>]
    /\ wire = [c \in CallIds |-> None]
    /\ env = [c \in CallIds |-> NoEnv]
    /\ result = [c \in CallIds |-> None]

Init == FetchInit(Factories) /\ WfIdle

\* One dispatch call, on any request.
Next ==
    \/ \E r \in Requests(1), a \in BOOLEAN : Call(1, r, a)
    \/ PollEmpty(1)
    \/ Poll(1)
    \/ \E o \in Outcomes : PreDone(1, o)
    \/ \E o \in Outcomes : TransportRespond(1, o)
    \/ Drop(1)

Spec == Init /\ [][Next]_vars

(***************************************************************************)
(* NCalls calls, each on its own accumulated data, interleaved.            *)
(***************************************************************************)
\* Wired configurations: every name has an address and a schema; the
\* connector may lack a transport of its own.
ConcFactories ==
    {f \in Factories :
        /\ f.schema.urls = Names
        /\ f.subgraph_schemas = Names
        /\ "graph" \in f.subgraph_service_factory}

ConcRequests(d) ==
    {FetchRequest(d, e, FALSE, "conn", p, src) :
        e \in BOOLEAN,
        p \in {PlainProtocol, RestFetch("graph", "conn")},
        src \in {None, Some("Connect")}}

InitConc == FetchInit(ConcFactories) /\ WfIdle

NextConc ==
    \/ \E c \in CallIds : \E r \in ConcRequests(c) : Call(c, r, TRUE)
    \/ \E c \in CallIds : PollEmpty(c)
    \/ \E c \in CallIds : Poll(c)
    \/ \E c \in CallIds, o \in Outcomes : PreDone(c, o)
    \/ \E c \in CallIds, o \in Outcomes : TransportRespond(c, o)
    \/ \E c \in CallIds : Drop(c)

SpecConc == InitConc /\ [][NextConc]_vars

(***************************************************************************)
(* Operations: schemas, selections, fragment tables.                       *)
(***************************************************************************)
\* Schema identities. ValidFederationSchema values are compared as wholes.
Schemas == {"S1", "S2"}
OtherSchema(s) == IF s = "S1" THEN "S2" ELSE "S1"

CompositeTypes == {"Query", "User"}
OtherType(t) == IF t = "Query" THEN "User" ELSE "Query"

\* The fields each schema defines, with the base type of their output.
SchemaFields(s) ==
    IF s = "S1"
    THEN (<<"Query", "me">> :> "User") @@ (<<"Query", "version">> :> "String")
            @@ (<<"User", "name">> :> "String") @@ (<<"User", "friend">> :> "User")
    ELSE (<<"Query", "me">> :> "User") @@ (<<"User", "name">> :> "String")

\* FieldDefinitionPosition::try_get
TryGet(field_position, s) ==
    IF field_position \in DOMAIN SchemaFields(s)
    THEN Some(SchemaFields(s)[field_position])
    ELSE None

\* FieldData::output_base_type
OutputBaseType(field_data) ==
    LET d == TryGet(field_data.field_position, field_data.schema) IN
    IF d.tag = "Some" THEN Ok(d.val)
    ELSE Err([template |-> "output_base_type", args |-> <<field_data.field_position>>])

\* TryFrom<OutputTypeDefinitionPosition> for CompositeTypeDefinitionPosition
TryIntoComposite(t) ==
    IF t \in CompositeTypes THEN Ok(t)
    ELSE Err([template |-> "try_into", args |-> <<t>>])

InternalDropsActual(template, args) ==
    Err([template |-> template, args |-> <<args[1]>>])

\* FederationError::internal(format!(template, args..))
Internal(template, args) == Err([template |-> template, args |-> args])

UnitOk == Ok(<<>>)

SelectionSet(s, t, sels) ==
    [schema |-> s, type_position |-> t, selections |-> sels]

Field(s, position, sub) ==
    [kind |-> "Field", schema |-> s, field_position |-> position,
     selection_set |-> sub]

FragmentSpread(s, name, tc, sub) ==
    [kind |-> "FragmentSpread", schema |-> s, fragment_name |-> name,
     type_condition_position |-> tc, selection_set |-> sub]

InlineFragment(s, parent, tc, sub) ==
    [kind |-> "InlineFragment", schema |-> s, parent_type_position |-> parent,
     type_condition_position |-> tc, selection_set |-> sub]

\* InlineFragmentData::casted_type
CastedType(fragment_data) ==
    IF fragment_data.type_condition_position.tag = "Some"
    THEN fragment_data.type_condition_position.val
    ELSE fragment_data.parent_type_position

Fragment(s, tc, body) ==
    [schema |-> s, type_condition_position |-> tc, selection_set |-> body]

Operation(s, root, fragments) ==
    [schema |-> s, selection_set |-> root, named_fragments |-> fragments]

\* The selection set below a selection, if it has one.
SubSelection(sel) ==
    IF sel.kind = "Field" THEN sel.selection_set ELSE Some(sel.selection_set)

WithSubSelection(sel, set) ==
    IF sel.kind = "Field"
    THEN [sel EXCEPT !.selection_set = Some(set)]
    ELSE [sel EXCEPT !.selection_set = set]

(***************************************************************************)
(* Well-formedness checks (operation/integrity.rs).                        *)
(***************************************************************************)
RECURSIVE SelectionIsWellFormed(_, _, _, _)
RECURSIVE SelectionSetIsWellFormed(_, _, _)
RECURSIVE CheckSelections(_, _, _, _, _)

FieldIsWellFormedWithoutLookup(field, schema, named_fragments) ==
    IF field.schema # schema
    THEN Internal("Schema mismatch: expected {:?}, got {:?}",
                  <<schema, field.schema>>)
    ELSE IF field.selection_set.tag = "Some"
    THEN LET selection_set == field.selection_set.val
             base_type == OutputBaseType(field)
         IN
         IF base_type.tag = "Err" THEN base_type
         ELSE LET sub_selection_set_type == TryIntoComposite(base_type.val) IN
         IF sub_selection_set_type.tag = "Err" THEN sub_selection_set_type
         ELSE IF selection_set.type_position # sub_selection_set_type.val
         THEN Internal("Selection set type position mismatch: expected {:?}, got {:?}",
                       <<sub_selection_set_type.val, selection_set.type_position>>)
         ELSE SelectionSetIsWellFormed(selection_set, schema, named_fragments)
    ELSE UnitOk

\* Selection::Field arm.
FieldIsWellFormed(field, schema, named_fragments) ==
    IF field.schema # schema
    THEN Internal("Schema mismatch: expected {:?}, got {:?}",
                  <<schema, field.schema>>)
    ELSE IF TryGet(field.field_position, schema).tag = "None"
    THEN Internal("Field not found: {field}", <<field.field_position>>)
    ELSE IF field.selection_set.tag = "Some"
    THEN LET selection_set == field.selection_set.val
             base_type == OutputBaseType(field)
         IN
         IF base_type.tag = "Err" THEN base_type
         ELSE LET sub_selection_set_type == TryIntoComposite(base_type.val) IN
         IF sub_selection_set_type.tag = "Err" THEN sub_selection_set_type
         ELSE IF selection_set.type_position # sub_selection_set_type.val
         THEN Internal("Selection set type position mismatch: expected {:?}, got {:?}",
                       <<sub_selection_set_type.val, selection_set.type_position>>)
         ELSE SelectionSetIsWellFormed(selection_set, schema, named_fragments)
    ELSE UnitOk

FragmentDefinitionUnchecked(fragment_data, schema, named_fragments) ==
    IF fragment_data.fragment_name \notin DOMAIN named_fragments
    THEN Internal("Fragment name not found in the given set: {}",
                  <<fragment_data.fragment_name>>)
    ELSE UnitOk

FragmentDefinitionBodyChecked(fragment_data, schema, named_fragments) ==
    IF fragment_data.fragment_name \notin DOMAIN named_fragments
    THEN Internal("Fragment name not found in the given set: {}",
                  <<fragment_data.fragment_name>>)
    ELSE LET fragment_def == named_fragments[fragment_data.fragment_name] IN
    IF fragment_def.schema # schema
    THEN Internal("Fragment definition's schema mismatch: expected {:?}, got {:?}",
                  <<schema, fragment_def.schema>>)
    ELSE IF fragment_def.type_condition_position
                # fragment_data.type_condition_position
    THEN Internal("Fragment definition's type-condition mismatch: expected {:?}, got {:?}",
                  <<fragment_data.type_condition_position,
                    fragment_def.type_condition_position>>)
    ELSE SelectionSetIsWellFormed(fragment_def.selection_set, schema,
                                  named_fragments)

\* Selection::FragmentSpread arm, from the lookup in named_fragments on.
FragmentDefinitionIsWellFormed(fragment_data, schema, named_fragments) ==
    IF fragment_data.fragment_name \notin DOMAIN named_fragments
    THEN Internal("Fragment name not found in the given set: {}",
                  <<fragment_data.fragment_name>>)
    ELSE LET fragment_def == named_fragments[fragment_data.fragment_name] IN
    IF fragment_def.schema # schema
    THEN Internal("Fragment definition's schema mismatch: expected {:?}, got {:?}",
                  <<schema, fragment_def.schema>>)
    ELSE IF fragment_def.type_condition_position
                # fragment_data.type_condition_position
    THEN Internal("Fragment definition's type-condition mismatch: expected {:?}, got {:?}",
                  <<fragment_data.type_condition_position,
                    fragment_def.type_condition_position>>)
    ELSE UnitOk

\* Selection::FragmentSpread arm.
FragmentSpreadIsWellFormed(fragment_spread, schema, named_fragments) ==
    IF fragment_spread.schema # schema
    THEN Internal("Schema mismatch: expected {:?}, got {:?}",
                  <<schema, fragment_spread.schema>>)
    ELSE IF fragment_spread.type_condition_position
                # fragment_spread.selection_set.type_position
    THEN Internal("Fragment's type-condition ({:?}) and the type of its sub-selection-set ({:?}) mismatch.",
                  <<fragment_spread.type_condition_position,
                    fragment_spread.selection_set.type_position>>)
    ELSE LET sub == SelectionSetIsWellFormed(fragment_spread.selection_set,
                                             schema, named_fragments) IN
    IF sub.tag = "Err" THEN sub
    ELSE FragmentDefinitionIsWellFormed(fragment_spread, schema, named_fragments)

\* Selection::InlineFragment arm.
InlineFragmentIsWellFormed(inline_fragment, schema, named_fragments, parent_type) ==
    IF inline_fragment.schema # schema
    THEN Internal("Schema mismatch: expected {:?}, got {:?}",
                  <<schema, inline_fragment.schema>>)
    ELSE IF inline_fragment.parent_type_position # parent_type
    THEN Internal("Parent type mismatch: expected {:?}, got {:?}",
                  <<parent_type, inline_fragment.parent_type_position>>)
    ELSE IF CastedType(inline_fragment) # inline_fragment.selection_set.type_position
    THEN Internal("Inline fragment's casted-type ({:?}) and the type of its sub-selection-set ({:?}) mismatch.",
                  <<CastedType(inline_fragment),
                    inline_fragment.selection_set.type_position>>)
    ELSE SelectionSetIsWellFormed(inline_fragment.selection_set, schema,
                                  named_fragments)

SelectionChecksFieldParent(selection, schema, named_fragments, parent_type) ==
    CASE selection.kind = "Field" ->
            IF selection.field_position[1] # parent_type
            THEN Internal("Parent type mismatch: expected {:?}, got {:?}",
                          <<parent_type, selection.field_position[1]>>)
            ELSE FieldIsWellFormed(selection, schema, named_fragments)
      [] selection.kind = "FragmentSpread" ->
            FragmentSpreadIsWellFormed(selection, schema, named_fragments)
      [] selection.kind = "InlineFragment" ->
            InlineFragmentIsWellFormed(selection, schema, named_fragments,
                                       parent_type)

\* Selection::is_well_formed
SelectionIsWellFormed(selection, schema, named_fragments, parent_type) ==
    CASE selection.kind = "Field" ->
            FieldIsWellFormed(selection, schema, named_fragments)
      [] selection.kind = "FragmentSpread" ->
            FragmentSpreadIsWellFormed(selection, schema, named_fragments)
      [] selection.kind = "InlineFragment" ->
            InlineFragmentIsWellFormed(selection, schema, named_fragments,
                                       parent_type)

\* for selection in self.iter() { selection.is_well_formed(..)?; }, from the
\* i-th selection on.
CheckSelections(selections, i, schema, named_fragments, parent_type) ==
    IF i > Len(selections) THEN UnitOk
    ELSE LET r == SelectionIsWellFormed(selections[i], schema,
                                        named_fragments, parent_type) IN
         IF r.tag = "Err" THEN r
         ELSE CheckSelections(selections, i + 1, schema, named_fragments,
                              parent_type)

SelectionSetIsShallowlyWellFormed(set, schema, named_fragments) ==
    IF set.schema # schema
    THEN Internal("Schema mismatch: expected {:?}, got {:?}",
                  <<schema, set.schema>>)
    ELSE UnitOk

\* SelectionSet::is_well_formed
SelectionSetIsWellFormed(set, schema, named_fragments) ==
    IF set.schema # schema
    THEN Internal("Schema mismatch: expected {:?}, got {:?}",
                  <<schema, set.schema>>)
    ELSE CheckSelections(set.selections, 1, schema, named_fragments,
                         set.type_position)

\* Operation::is_well_formed
OperationIsWellFormed(operation, schema) ==
    IF operation.schema # schema
    THEN Internal("Schema mismatch: expected {:?}, got {:?}",
                  <<schema, operation.schema>>)
    ELSE SelectionSetIsWellFormed(operation.selection_set, schema,
                                  operation.named_fragments)

DebugCheckAborts(debug_assertions, operation, schema) ==
    IF debug_assertions
    THEN LET checked == OperationIsWellFormed(operation, schema) IN
         [evaluated |-> TRUE,
          flow |-> IF checked.tag = "Err" THEN "abort" ELSE "continue",
          returned |-> None]
    ELSE [evaluated |-> FALSE, flow |-> "continue", returned |-> None]

\* debug_check!(operation.is_well_formed(schema)), that is
\* debug_assert_eq!((), $result?): with debug assertions the expression is
\* evaluated, `?` returns its error from the enclosing function and () is
\* compared with (); without them the expression is not evaluated.
DebugCheck(debug_assertions, operation, schema) ==
    IF debug_assertions
    THEN LET checked == OperationIsWellFormed(operation, schema) IN
         IF checked.tag = "Err"
         THEN [evaluated |-> TRUE, flow |-> "return", returned |-> Some(checked)]
         ELSE [evaluated |-> TRUE, flow |-> "continue", returned |-> None]
    ELSE [evaluated |-> FALSE, flow |-> "continue", returned |-> None]

(***************************************************************************)
(* Building, corrupting and validating an operation.                       *)
(***************************************************************************)
RECURSIVE SelectionAt(_, _)
RECURSIVE ReplaceAt(_, _, _)
RECURSIVE AddAt(_, _, _)
RECURSIVE NodePaths(_)

\* The selection at a path (child indices from the root selection set).
SelectionAt(set, path) ==
    LET sel == set.selections[Head(path)] IN
    IF Len(path) = 1 THEN sel
    ELSE SelectionAt(SubSelection(sel).val, Tail(path))

ReplaceAt(set, path, new) ==
    LET i == Head(path)
        sel == set.selections[i]
    IN
    IF Len(path) = 1 THEN [set EXCEPT !.selections[i] = new]
    ELSE [set EXCEPT !.selections[i] =
            WithSubSelection(sel, ReplaceAt(SubSelection(sel).val, Tail(path), new))]

\* Append a selection to the selection set at a path (<<>>: the root).
AddAt(set, path, new) ==
    IF path = <<>> THEN [set EXCEPT !.selections = Append(@, new)]
    ELSE LET i == Head(path)
             sel == set.selections[i]
         IN [set EXCEPT !.selections[i] =
                WithSubSelection(sel, AddAt(SubSelection(sel).val, Tail(path), new))]

NodePaths(set) ==
    UNION {
        {<<i>>} \cup
            (IF SubSelection(set.selections[i]).tag = "Some"
             THEN {<<i>> \o q : q \in NodePaths(SubSelection(set.selections[i]).val)}
             ELSE {})
        : i \in 1..Len(set.selections)}

Root == op.val.selection_set
Fragments == op.val.named_fragments

PathsOfKind(kind) == {q \in NodePaths(Root) : SelectionAt(Root, q).kind = kind}

\* The selection sets of the tree: the root and every sub-selection.
SetPaths ==
    {<<>>} \cup {q \in NodePaths(Root) : SubSelection(SelectionAt(Root, q)).tag = "Some"}

SetAt(path) ==
    IF path = <<>> THEN Root ELSE SubSelection(SelectionAt(Root, path)).val

\* The fragment table of an operation on schema s.
FragmentTable(s) ==
    ("UserFields" :> Fragment(s, "User", SelectionSet(s, "User", <<>>)))

\* The selections a planner may put into a selection set of type t of an
\* operation on schema s: a field of t (with an empty sub-selection when its
\* output is composite), a spread of a fragment of the table, an inline
\* fragment with or without a type condition.
Candidates(s, t, fragments) ==
    {Field(s, q,
           IF SchemaFields(s)[q] \in CompositeTypes
           THEN Some(SelectionSet(s, SchemaFields(s)[q], <<>>))
           ELSE None) :
        q \in {x \in DOMAIN SchemaFields(s) : x[1] = t}}
    \cup
    {FragmentSpread(s, n, fragments[n].type_condition_position,
                    SelectionSet(s, fragments[n].type_condition_position, <<>>)) :
        n \in DOMAIN fragments}
    \cup
    {InlineFragment(s, t, None, SelectionSet(s, t, <<>>)),
     InlineFragment(s, t, Some("User"), SelectionSet(s, "User", <<>>))}

Editable ==
    op.tag = "Some" /\ verdict = None /\ site = None /\ corrupted = None

\* A field name no schema defines.
UnknownField == "unknown"

\* Selection sets of type t that are not well-formed for schema s.
IllFormedBodies(s, t) ==
    {SelectionSet(OtherSchema(s), t, <<>>),
     SelectionSet(s, t, <<Field(s, <<t, UnknownField>>, None)>>)}

Corruption(kind, path, name) ==
    Some([kind |-> kind, path |-> path, name |-> name])

SetRoot(root) == op' = Some([op.val EXCEPT !.selection_set = root])
SetFragments(f) == op' = Some([op.val EXCEPT !.named_fragments = f])

\* The planner adds a selection that is consistent with the schema.
AddSelection(path, sel) ==
    /\ Editable
    /\ Cardinality(NodePaths(Root)) < MaxNodes
    /\ path \in SetPaths
    /\ sel \in Candidates(target, SetAt(path).type_position, Fragments)
    /\ SetRoot(AddAt(Root, path, sel))
    /\ UNCHANGED <<target, corrupted, verdict, site, fetchVars>>

\* (a) a field of the tree refers to another schema.
CorruptFieldSchema(path) ==
    /\ Editable
    /\ path \in PathsOfKind("Field")
    /\ SetRoot(ReplaceAt(Root, path,
            [SelectionAt(Root, path) EXCEPT !.schema = OtherSchema(@)]))
    /\ corrupted' = Corruption("field_schema", path, "")
    /\ UNCHANGED <<target, verdict, site, fetchVars>>

\* (b) a spread's type condition differs from its sub-selection's type.
CorruptSpreadTypeCondition(path) ==
    /\ Editable
    /\ path \in PathsOfKind("FragmentSpread")
    /\ SetRoot(ReplaceAt(Root, path,
            [SelectionAt(Root, path) EXCEPT
                !.type_condition_position = OtherType(@)]))
    /\ corrupted' = Corruption("spread_type_condition", path, "")
    /\ UNCHANGED <<target, verdict, site, fetchVars>>

\* (b) again, the sub-selection's type being the one that changed.
CorruptSpreadSelectionType(path) ==
    /\ Editable
    /\ path \in PathsOfKind("FragmentSpread")
    /\ SetRoot(ReplaceAt(Root, path,
            [SelectionAt(Root, path) EXCEPT
                !.selection_set.type_position = OtherType(@)]))
    /\ corrupted' = Corruption("spread_selection_type", path, "")
    /\ UNCHANGED <<target, verdict, site, fetchVars>>

\* (c) an inline fragment declares another parent type than the type of the
\* selection set it sits in.
CorruptInlineParentType(path) ==
    /\ Editable
    /\ path \in PathsOfKind("InlineFragment")
    /\ SetRoot(ReplaceAt(Root, path,
            [SelectionAt(Root, path) EXCEPT
                !.parent_type_position = OtherType(@)]))
    /\ corrupted' = Corruption("inline_parent_type", path, "")
    /\ UNCHANGED <<target, verdict, site, fetchVars>>

\* The fragment table loses a definition.
RemoveFragment(name) ==
    /\ Editable
    /\ name \in DOMAIN Fragments
    /\ SetFragments([n \in DOMAIN Fragments \ {name} |-> Fragments[n]])
    /\ corrupted' = Corruption("fragment_removed", <<>>, name)
    /\ UNCHANGED <<target, verdict, site, fetchVars>>

\* A definition of the fragment table refers to another schema.
CorruptFragmentSchema(name) ==
    /\ Editable
    /\ name \in DOMAIN Fragments
    /\ SetFragments([Fragments EXCEPT ![name].schema = OtherSchema(@)])
    /\ corrupted' = Corruption("fragment_schema", <<>>, name)
    /\ UNCHANGED <<target, verdict, site, fetchVars>>

\* A definition of the fragment table has another type condition.
CorruptFragmentTypeCondition(name) ==
    /\ Editable
    /\ name \in DOMAIN Fragments
    /\ SetFragments([Fragments EXCEPT
            ![name].type_condition_position = OtherType(@)])
    /\ corrupted' = Corruption("fragment_type_condition", <<>>, name)
    /\ UNCHANGED <<target, verdict, site, fetchVars>>

\* A field of the tree names a position the schema does not define.
CorruptFieldPosition(path) ==
    /\ Editable
    /\ path \in PathsOfKind("Field")
    /\ SetRoot(ReplaceAt(Root, path,
            [SelectionAt(Root, path) EXCEPT
                !.field_position = <<@[1], UnknownField>>]))
    /\ corrupted' = Corruption("field_position", path, "")
    /\ UNCHANGED <<target, verdict, site, fetchVars>>

\* The sub-selection of a field has another type than the field's output.
CorruptFieldSelectionType(path) ==
    /\ Editable
    /\ path \in PathsOfKind("Field")
    /\ SelectionAt(Root, path).selection_set.tag = "Some"
    /\ SetRoot(ReplaceAt(Root, path,
            [SelectionAt(Root, path) EXCEPT
                !.selection_set.val.type_position = OtherType(@)]))
    /\ corrupted' = Corruption("field_selection_type", path, "")
    /\ UNCHANGED <<target, verdict, site, fetchVars>>

\* A field whose output is no composite type gets a sub-selection.
CorruptFieldScalarSelection(path, t) ==
    /\ Editable
    /\ path \in PathsOfKind("Field")
    /\ SelectionAt(Root, path).selection_set = None
    /\ t \in CompositeTypes
    /\ SetRoot(ReplaceAt(Root, path,
            [SelectionAt(Root, path) EXCEPT
                !.selection_set = Some(SelectionSet(target, t, <<>>))]))
    /\ corrupted' = Corruption("field_scalar_selection", path, "")
    /\ UNCHANGED <<target, verdict, site, fetchVars>>

\* The sub-selection of an inline fragment has another type than the type
\* the fragment casts to.
CorruptInlineSelectionType(path) ==
    /\ Editable
    /\ path \in PathsOfKind("InlineFragment")
    /\ SetRoot(ReplaceAt(Root, path,
            [SelectionAt(Root, path) EXCEPT
                !.selection_set.type_position = OtherType(@)]))
    /\ corrupted' = Corruption("inline_selection_type", path, "")
    /\ UNCHANGED <<target, verdict, site, fetchVars>>

\* A selection set of the tree refers to another schema.
CorruptSetSchema(path) ==
    /\ Editable
    /\ path \in SetPaths
    /\ SetRoot(IF path = <<>>
               THEN [Root EXCEPT !.schema = OtherSchema(@)]
               ELSE ReplaceAt(Root, path,
                        WithSubSelection(SelectionAt(Root, path),
                            [SetAt(path) EXCEPT !.schema = OtherSchema(@)])))
    /\ corrupted' = Corruption("set_schema", path, "")
    /\ UNCHANGED <<target, verdict, site, fetchVars>>

\* The operation refers to another schema.
CorruptOperationSchema ==
    /\ Editable
    /\ op' = Some([op.val EXCEPT !.schema = OtherSchema(@)])
    /\ corrupted' = Corruption("operation_schema", <<>>, "")
    /\ UNCHANGED <<target, verdict, site, fetchVars>>

\* A selection set gets a field that is declared on the other composite
\* type, and that the schema defines there.
AddForeignField(path, sel) ==
    /\ Editable
    /\ Cardinality(NodePaths(Root)) < MaxNodes
    /\ path \in SetPaths
    /\ sel \in {x \in Candidates(target, OtherType(SetAt(path).type_position),
                                 Fragments) : x.kind = "Field"}
    /\ SetRoot(AddAt(Root, path, sel))
    /\ corrupted' = Corruption("field_parent_type", path, "")
    /\ UNCHANGED <<target, verdict, site, fetchVars>>

\* The body of a definition of the fragment table becomes ill-formed: it
\* refers to another schema, or selects a field the schema does not define.
CorruptFragmentBody(name, body) ==
    /\ Editable
    /\ name \in DOMAIN Fragments
    /\ body \in IllFormedBodies(target, Fragments[name].type_condition_position)
    /\ SetFragments([Fragments EXCEPT ![name].selection_set = body])
    /\ corrupted' = Corruption("fragment_body", <<>>, name)
    /\ UNCHANGED <<target, verdict, site, fetchVars>>

\* operation.is_well_formed(&schema)
Validate ==
    /\ op.tag = "Some"
    /\ verdict = None
    /\ site = None
    /\ verdict' = Some(OperationIsWellFormed(op.val, target))
    /\ UNCHANGED <<op, target, corrupted, site, fetchVars>>

\* A function whose body starts with debug_check!(operation.is_well_formed(
\* &schema)), in a build with or without debug assertions.
DebugCheckSite(debug_assertions) ==
    /\ op.tag = "Some"
    /\ verdict = None
    /\ site = None
    /\ site' = Some([debug_assertions |-> debug_assertions,
                     outcome |-> DebugCheck(debug_assertions, op.val, target)])
    /\ UNCHANGED <<op, target, corrupted, verdict, fetchVars>>

IdleFactory ==
    [schema |-> [urls |-> Names], subgraph_schemas |-> Names,
     subgraph_service_factory |-> Names, connectors |-> "connectors"]

InitWF ==
    /\ FetchInit({IdleFactory})
    /\ target \in Schemas
    /\ op = Some(Operation(target, SelectionSet(target, "Query", <<>>),
                           FragmentTable(target)))
    /\ corrupted = None
    /\ verdict = None
    /\ site = None

\* The selections and the selection sets an edit may touch: none once the
\* operation was corrupted or checked.
EditableSelections == IF Editable THEN NodePaths(Root) ELSE {}
EditableSets == IF Editable THEN SetPaths ELSE {}

NextWF ==
    \/ \E path \in EditableSets :
        \E sel \in Candidates(target, SetAt(path).type_position, Fragments) :
            AddSelection(path, sel)
    \/ \E path \in EditableSelections : CorruptFieldSchema(path)
    \/ \E path \in EditableSelections : CorruptSpreadTypeCondition(path)
    \/ \E path \in EditableSelections : CorruptSpreadSelectionType(path)
    \/ \E path \in EditableSelections : CorruptInlineParentType(path)
    \/ \E name \in DOMAIN Fragments : RemoveFragment(name)
    \/ \E name \in DOMAIN Fragments : CorruptFragmentSchema(name)
    \/ \E name \in DOMAIN Fragments : CorruptFragmentTypeCondition(name)
    \/ \E path \in EditableSelections : CorruptFieldPosition(path)
    \/ \E path \in EditableSelections : CorruptFieldSelectionType(path)
    \/ \E path \in EditableSelections, t \in CompositeTypes :
            CorruptFieldScalarSelection(path, t)
    \/ \E path \in EditableSelections : CorruptInlineSelectionType(path)
    \/ \E path \in EditableSets : CorruptSetSchema(path)
    \/ CorruptOperationSchema
    \/ \E path \in EditableSets :
        \E sel \in Candidates(target, OtherType(SetAt(path).type_position),
                              Fragments) :
            AddForeignField(path, sel)
    \/ \E name \in DOMAIN Fragments :
        \E body \in IllFormedBodies(target,
                        Fragments[name].type_condition_position) :
            CorruptFragmentBody(name, body)
    \/ Validate
    \/ \E b \in BOOLEAN : DebugCheckSite(b)

SpecWF == InitWF /\ [][NextWF]_vars

(***************************************************************************)
(* Properties of the dispatch call.                                        *)
(***************************************************************************)
Called(c) == req[c].tag = "Some"
Node(c) == req[c].val.fetch_node
Resolved(c) == VariablesNew(req[c].val)
Performed(c, s) == \E i \in 1..Len(steps[c]) : steps[c][i] = s
Times(c, s) == Cardinality({i \in 1..Len(steps[c]) : steps[c][i] = s})

\* C1: a call whose variable resolution returns no variables completes with
\* Ok(empty object, empty second component); it never panics, never looks the
\* transport up, never runs connector pre-processing and never invokes a
\* transport.
C1_NoVariablesShortCircuit ==
    \A c \in CallIds :
        (Called(c) /\ Resolved(c).tag = "None") =>
            /\ pc[c] \in {"empty", "done", "dropped"}
            /\ pc[c] = "done" =>
                    result[c] = Ok([value |-> <<"object">>, second |-> <<>>])
            /\ pc[c] # "done" => result[c] = None
            /\ ~Performed(c, "uri")
            /\ ~Performed(c, "create")
            /\ ~Performed(c, "pre")
            /\ ~Performed(c, "invoke")
            /\ wire[c] = None

\* A call without variables that completed, under a configuration that has
\* neither address nor transport for anything.
C1_Witness ==
    \E c \in CallIds :
        /\ Called(c) /\ Resolved(c).tag = "None"
        /\ pc[c] = "done"
        /\ Node(c).source_node = Some("Connect")
        /\ factory.subgraph_service_factory = {}

\* Which transport was invoked, and the service name the request carries.
Addressing(c, lookup, carried) ==
    /\ wire[c].val.service = <<"service", lookup>>
    /\ wire[c].val.request.subgraph_name = carried

\* C2 as stated: for a REST node the transport invoked is the one looked up
\* by the connector service name and the request carries the parent service
\* name; for a plain node both are the node's own service name.
C2_AsStated ==
    \A c \in CallIds :
        wire[c].tag = "Some" =>
            IF Node(c).protocol.kind = "RestFetch"
            THEN Addressing(c, Node(c).protocol.connector_service_name,
                            Node(c).protocol.parent_service_name)
            ELSE Addressing(c, Node(c).service_name, Node(c).service_name)

\* C2 amended: for a REST node the transport invoked is the one looked up by
\* the parent service name and the request carries the connector service
\* name; for a plain node both are the node's own service name.
C2_ParentTransportConnectorName ==
    \A c \in CallIds :
        wire[c].tag = "Some" =>
            IF Node(c).protocol.kind = "RestFetch"
            THEN Addressing(c, Node(c).protocol.parent_service_name,
                            Node(c).protocol.connector_service_name)
            ELSE Addressing(c, Node(c).service_name, Node(c).service_name)

\* A REST node whose connector name differs from its parent name reached the
\* transport.
C2_Witness ==
    \E c \in CallIds :
        /\ wire[c].tag = "Some"
        /\ Node(c).protocol.kind = "RestFetch"
        /\ Node(c).protocol.connector_service_name
                # Node(c).protocol.parent_service_name

\* C3: with contextual arguments present, when alias construction succeeds
\* the text handed to the transport is the serialized aliased operation and
\* not the raw text; when it fails the text handed over is the raw serialized
\* operation, the call goes on to the transport (it fails only for a missing
\* transport capability) and a completed call carries no error unless the
\* transport itself failed.
C3_AliasOrFallback ==
    \A c \in CallIds :
        (Called(c) /\ Resolved(c).tag = "Some"
                   /\ Resolved(c).val.contextual_arguments.tag = "Some") =>
            LET raw == <<"raw", Node(c).operation>>
                aliased == <<"aliased", Node(c).operation,
                             Resolved(c).val.contextual_arguments.val>>
                sent == wire[c].val.request.body.query
                name == IF Node(c).protocol.kind = "RestFetch"
                        THEN Node(c).protocol.parent_service_name
                        ELSE Node(c).service_name
            IN
            /\ env[c].alias = "ok" =>
                /\ wire[c].tag = "Some" => sent = aliased /\ sent # raw
                /\ pc[c] = "done" => wire[c].tag = "Some"
            /\ env[c].alias = "err" =>
                /\ wire[c].tag = "Some" => sent = raw
                /\ pc[c] = "panicked" =>
                        name \notin factory.subgraph_service_factory
                /\ pc[c] \in {"ready", "pre", "fetch", "done", "dropped", "panicked"}
                /\ pc[c] = "done" =>
                        /\ wire[c].tag = "Some"
                        /\ result[c].tag = "Ok"
                        /\ env[c].transport = "ok" => result[c].val.second = <<>>

\* A call whose alias construction failed completed through the transport.
C3_Witness ==
    \E c \in CallIds :
        /\ env[c].alias = "err"
        /\ pc[c] = "done"
        /\ env[c].transport = "ok"

\* C5 as stated: when the transport fails, the future resolves to Err.
C5_AsStated ==
    \A c \in CallIds :
        (pc[c] = "done" /\ env[c].transport = "err") => result[c].tag = "Err"

\* C5 amended: when the transport fails, the future still resolves to Ok,
\* wrapping what subgraph_fetch returned; it never resolves to Err.
C5_TransportFailureInsideOk ==
    \A c \in CallIds :
        /\ (pc[c] = "done" /\ env[c].transport = "err") => result[c].tag = "Ok"
        /\ result[c].tag # "Err"

\* A call completed after its transport failed.
C5_Witness ==
    \E c \in CallIds : pc[c] = "done" /\ env[c].transport = "err"

\* Whether the steps of call c follow the given order.
Rank(order, s) == CHOOSE k \in 1..Len(order) : order[k] = s
FollowsOrder(c, order) ==
    /\ \A i \in 1..Len(steps[c]) : \E k \in 1..Len(order) : order[k] = steps[c][i]
    /\ \A i, j \in 1..Len(steps[c]) :
            i < j => Rank(order, steps[c][i]) < Rank(order, steps[c][j])

\* C7 as stated: steps 1 to 8 in that order; connector pre-processing comes
\* before the transport capability is obtained and invoked, the merge after
\* the transport responded.
C7_AsStated ==
    \A c \in CallIds :
        FollowsOrder(c, <<"variables", "names", "uri", "alias", "request",
                          "pre", "pre_done", "create", "invoke", "respond",
                          "merge">>)

\* C7 amended: the transport capability is obtained before the future is
\* returned, hence before connector pre-processing; pre-processing comes
\* before the transport is invoked, the merge after the transport responded.
C7_LookupBeforePreProcessing ==
    \A c \in CallIds :
        FollowsOrder(c, <<"variables", "names", "uri", "alias", "request",
                          "create", "pre", "pre_done", "invoke", "respond",
                          "merge">>)

\* A call on a node with a connector descriptor ran all its steps.
C7_Witness ==
    \E c \in CallIds :
        /\ pc[c] = "done"
        /\ Performed(c, "pre")
        /\ Performed(c, "merge")

\* C8: when variables resolve and the service (the name the code looks up:
\* the parent service name for a REST node, else the node's service name) has
\* no address or no transport capability, the call panics: no future, no
\* FetchResponse, no transport invoked.
C8_MissingWiringIsFatal ==
    \A c \in CallIds :
        LET name == IF Node(c).protocol.kind = "RestFetch"
                    THEN Node(c).protocol.parent_service_name
                    ELSE Node(c).service_name
        IN
        (Called(c) /\ Resolved(c).tag = "Some"
            /\ (name \notin factory.schema.urls
                \/ name \notin factory.subgraph_service_factory)) =>
            /\ pc[c] = "panicked"
            /\ fut[c] = None
            /\ result[c] = None
            /\ wire[c] = None
            /\ ~Performed(c, "pre")
            /\ ~Performed(c, "invoke")

\* A call whose service has an address but no transport capability panicked.
C8_Witness ==
    \E c \in CallIds :
        /\ Called(c) /\ Resolved(c).tag = "Some"
        /\ pc[c] = "panicked"
        /\ Performed(c, "create")

\* C9: a call that reached the transport ran connector pre-processing once
\* if its node carries a connector descriptor and never otherwise; whatever
\* pre-processing answered, the transport got the request the call built and
\* the result is what the transport's answer alone determines.
C9_PreProcessingDiscarded ==
    \A c \in CallIds :
        /\ pc[c] \in {"fetch", "done"} /\ Resolved(c).tag = "Some" =>
            /\ Times(c, "pre") =
                    (IF Node(c).source_node = Some("Connect") THEN 1 ELSE 0)
            /\ wire[c].tag = "Some"
            /\ wire[c].val.request = fut[c].val.subgraph_request
            /\ Times(c, "invoke") = 1
        /\ env[c].pre # "none" =>
            /\ pc[c] \in {"fetch", "done", "dropped"}
            /\ wire[c].tag = "Some"
            /\ wire[c].val.request.body.variables = Resolved(c).val.variables
            /\ pc[c] = "done" =>
                /\ result[c].tag = "Ok"
                /\ env[c].transport = "ok" =>
                    /\ result[c].val.second = <<>>
                    /\ result[c].val.value[1] = "merged"

\* A call completed although its connector pre-processing failed.
C9_Witness ==
    \E c \in CallIds :
        /\ pc[c] = "done"
        /\ env[c].pre = "err"
        /\ env[c].transport = "ok"
        /\ result[c].tag = "Ok"

\* What call c yields when it runs alone under configuration f, given what
\* its own collaborators answered.
AloneResult(f, request, e) ==
    LET r == FetchServiceCall(FactoryCreate(f), request, e.alias # "err") IN
    IF r.pc = "empty"
    THEN Ok([value |-> <<"object">>, second |-> <<>>])
    ELSE Ok(SubgraphFetch(r.fut.val,
                          [service |-> r.fut.val.service,
                           request |-> r.fut.val.subgraph_request],
                          e.transport))

\* C6: under every interleaving no call modifies the shared configuration,
\* and each completed call's result is the one it yields alone on its own
\* request; a call fails (panics) only if it would fail alone.
C6_IndependentCalls ==
    /\ [][factory' = factory]_vars
    /\ [](\A c \in CallIds :
            /\ pc[c] = "done" =>
                    result[c] = AloneResult(factory, req[c].val, env[c])
            /\ pc[c] = "panicked" =>
                    FetchServiceCall(FactoryCreate(factory), req[c].val,
                                     TRUE).pc = "panicked")

\* Two calls overlapped: one completed through the transport while another
\* was suspended on its own transport call.
C6_Witness ==
    \E c, d \in CallIds :
        /\ c # d
        /\ pc[c] = "done" /\ env[c].transport = "ok"
        /\ pc[d] = "fetch"
        /\ Node(c).protocol = Node(d).protocol

\* The semantic service name of call c's node.
SemanticName(c) ==
    IF Node(c).protocol.kind = "RestFetch"
    THEN Node(c).protocol.parent_service_name
    ELSE Node(c).service_name

\* C12: every request handed to a transport uses POST, carries the operation
\* name and the variables resolved in step 1, the propagated context and the
\* operation kind of the fetch node, and the node's schema-aware hash and
\* authorization token unchanged.
C12_RequestCarriesNodeData ==
    \A c \in CallIds :
        wire[c].tag = "Some" =>
            LET r == wire[c].val.request IN
            /\ r.method = "POST"
            /\ r.body.operation_name = Node(c).operation_name
            /\ r.body.variables = Resolved(c).val.variables
            /\ r.context = req[c].val.context
            /\ r.operation_kind = Node(c).operation_kind
            /\ r.query_hash = Node(c).schema_aware_hash
            /\ r.authorization = Node(c).authorization

\* A request reached the transport.
C12_Witness ==
    \E c \in CallIds :
        /\ pc[c] = "fetch"
        /\ wire[c].tag = "Some"
        /\ wire[c].val.request.method = "POST"

\* C13 as stated: the address of the request a call builds is the one
\* registered for the connector service name when the node is a REST node,
\* for the node's own service name otherwise.
C13_AsStated ==
    \A c \in CallIds :
        fut[c].tag = "Some" =>
            fut[c].val.subgraph_request.uri =
                <<"url", IF Node(c).protocol.kind = "RestFetch"
                         THEN Node(c).protocol.connector_service_name
                         ELSE Node(c).service_name>>

\* C13 amended: the address of the request a call builds is the one
\* registered for the semantic service name: the parent service name when the
\* node is a REST node, the node's own service name otherwise.
C13_AddressOfSemanticService ==
    \A c \in CallIds :
        fut[c].tag = "Some" =>
            /\ SemanticName(c) \in factory.schema.urls
            /\ fut[c].val.subgraph_request.uri = <<"url", SemanticName(c)>>
            /\ wire[c].tag = "Some" =>
                    wire[c].val.request.uri = <<"url", SemanticName(c)>>

\* A REST node whose connector has an address of its own, other than its
\* parent's, got its request built.
C13_Witness ==
    \E c \in CallIds :
        /\ fut[c].tag = "Some"
        /\ Node(c).protocol.kind = "RestFetch"
        /\ Node(c).protocol.connector_service_name # SemanticName(c)
        /\ factory.schema.urls = Names

\* The steps call() performs before it returns the async block.
SyncSteps == <<"variables", "names", "uri", "alias", "request", "create">>

\* C16: a call is suspended only while it awaits connector pre-processing or
\* the transport; variables, service names, address, operation text and
\* request are done when the future is returned, and a future abandoned
\* before it was ever driven has run neither pre-processing nor the
\* transport.
C16_SuspensionPoints ==
    /\ [](\A c \in CallIds :
            /\ pc[c] = "ready" =>
                /\ steps[c] = SyncSteps
                /\ fut[c].tag = "Some"
                /\ wire[c] = None
                /\ env[c].pre = "none" /\ env[c].transport = "none"
            /\ pc[c] = "empty" => steps[c] = <<"variables">> /\ wire[c] = None
            /\ pc[c] = "pre" =>
                /\ steps[c] = Append(SyncSteps, "pre")
                /\ wire[c] = None
            /\ pc[c] = "fetch" =>
                /\ steps[c][Len(steps[c])] = "invoke"
                /\ wire[c].tag = "Some"
                /\ env[c].transport = "none")
    /\ [][\A c \in CallIds :
            (pc[c] \in {"ready", "empty"} /\ pc'[c] = "dropped") =>
                /\ wire'[c] = None
                /\ \A i \in 1..Len(steps'[c]) :
                        steps'[c][i] \notin {"pre", "invoke", "respond", "merge"}]_vars

\* The future of a node with a connector descriptor was abandoned before it
\* was ever driven.
C16_Witness ==
    \E c \in CallIds :
        /\ pc[c] = "dropped"
        /\ steps[c] = SyncSteps
        /\ Node(c).source_node = Some("Connect")
        /\ wire[c] = None

\* C17: the no-variables short-circuit comes before the wiring checks: a
\* call without variables never looks up an address or a transport and
\* completes with the empty result whatever the wiring; a call panics only if
\* its variables resolved.
C17_ShortCircuitBeforeWiring ==
    \A c \in CallIds :
        /\ pc[c] = "panicked" => Called(c) /\ Resolved(c).tag = "Some"
        /\ (Called(c) /\ Resolved(c).tag = "None"
                /\ SemanticName(c) \notin factory.schema.urls
                /\ SemanticName(c) \notin factory.subgraph_service_factory) =>
            /\ pc[c] \in {"empty", "done", "dropped"}
            /\ steps[c] = <<"variables">>
            /\ pc[c] = "done" =>
                    result[c] = Ok([value |-> <<"object">>, second |-> <<>>])

\* A call without variables completed although its service has neither an
\* address nor a transport.
C17_Witness ==
    \E c \in CallIds :
        /\ Called(c) /\ Resolved(c).tag = "None"
        /\ SemanticName(c) \notin factory.schema.urls
        /\ SemanticName(c) \notin factory.subgraph_service_factory
        /\ pc[c] = "done"
        /\ result[c].tag = "Ok"

\* C18: alias construction is attempted exactly when contextual arguments
\* are present and the per-service schema map has an entry for the semantic
\* service name; otherwise the raw text is sent and no error is surfaced; the
\* text passed on to the merge is always the text of the outbound request.
C18_AliasAttemptedIffSchema ==
    \A c \in CallIds :
        (Called(c) /\ Resolved(c).tag = "Some" /\ env[c].alias # "none") =>
            LET ctx == Resolved(c).val.contextual_arguments
                known == SemanticName(c) \in factory.subgraph_schemas
                raw == <<"raw", Node(c).operation>>
            IN
            /\ env[c].alias \in {"ok", "err"} <=> (ctx.tag = "Some" /\ known)
            /\ env[c].alias = "no_schema" <=> (ctx.tag = "Some" /\ ~known)
            /\ env[c].alias = "absent" <=> ctx.tag = "None"
            /\ env[c].alias \in {"absent", "no_schema"} =>
                /\ fut[c].tag = "Some" =>
                        fut[c].val.subgraph_request.body.query = raw
                /\ wire[c].tag = "Some" => wire[c].val.request.body.query = raw
                /\ pc[c] = "panicked" =>
                        SemanticName(c) \notin factory.subgraph_service_factory
                /\ pc[c] = "done" =>
                        /\ result[c].tag = "Ok"
                        /\ env[c].transport = "ok" =>
                                result[c].val.second = <<>>
            /\ fut[c].tag = "Some" =>
                    fut[c].val.aqs = fut[c].val.subgraph_request.body.query

\* A REST node with contextual arguments completed with the raw text: its
\* parent has no schema entry, though its connector has one.
C18_Witness ==
    \E c \in CallIds :
        /\ pc[c] = "done"
        /\ env[c].alias = "no_schema"
        /\ Node(c).protocol.kind = "RestFetch"
        /\ Node(c).protocol.connector_service_name \in factory.subgraph_schemas
        /\ wire[c].val.request.body.query = <<"raw", Node(c).operation>>

(***************************************************************************)
(* Properties of the well-formedness checks.                               *)
(***************************************************************************)
Validated == verdict.tag = "Some"
CorruptedBy(kinds) == corrupted.tag = "Some" /\ corrupted.val.kind \in kinds

\* C4: Operation::is_well_formed returns Ok for every operation the planner
\* built consistently, and an error for every operation obtained from one by
\* a single corruption at any depth: (a) a field with another schema, (b) a
\* spread whose type condition differs from its sub-selection's type
\* position, (c) an inline fragment whose declared parent type differs from
\* the type position of the enclosing selection set.
C4_ConsistentOkCorruptedErr ==
    Validated =>
        /\ corrupted = None => verdict.val = Ok(<<>>)
        /\ CorruptedBy({"field_schema", "spread_type_condition",
                        "spread_selection_type", "inline_parent_type"})
              => verdict.val.tag = "Err"

\* An inline fragment below the root level got another parent type and the
\* operation was rejected.
C4_Witness ==
    /\ Validated
    /\ CorruptedBy({"inline_parent_type"})
    /\ Len(corrupted.val.path) >= 2
    /\ verdict.val.tag = "Err"

\* C10: a fragment spread validated against schema s with the fragment table
\* is rejected when its name is no key of the table, when the definition
\* found has another schema than s, or when the definition's type condition
\* differs from the spread's; it is accepted only if the definition exists
\* and matches on both.
C10_SpreadDefinitionChecked ==
    op.tag = "Some" =>
        \A q \in PathsOfKind("FragmentSpread"), s \in Schemas,
           t \in CompositeTypes :
            LET spread == SelectionAt(Root, q)
                name == spread.fragment_name
                r == SelectionIsWellFormed(spread, s, Fragments, t)
            IN
            /\ name \notin DOMAIN Fragments => r.tag = "Err"
            /\ (name \in DOMAIN Fragments /\ Fragments[name].schema # s)
                    => r.tag = "Err"
            /\ (name \in DOMAIN Fragments
                    /\ Fragments[name].type_condition_position
                            # spread.type_condition_position)
                    => r.tag = "Err"
            /\ r.tag = "Ok" =>
                    /\ name \in DOMAIN Fragments
                    /\ Fragments[name].schema = s
                    /\ Fragments[name].type_condition_position
                            = spread.type_condition_position

\* An operation holding a spread was rejected because the definition of the
\* table had another type condition than the spread.
C10_Witness ==
    /\ Validated
    /\ CorruptedBy({"fragment_type_condition"})
    /\ PathsOfKind("FragmentSpread") # {}
    /\ verdict.val.tag = "Err"
    /\ verdict.val.val.template =
        "Fragment definition's type-condition mismatch: expected {:?}, got {:?}"

\* What the description of the Field check calls an ill-formed field for
\* schema s: another schema, a position s does not define, or a sub-selection
\* whose type position is not the composite type of the field's output.
FieldRejected(field, s) ==
    \/ field.schema # s
    \/ field.field_position \notin DOMAIN SchemaFields(s)
    \/ /\ field.selection_set.tag = "Some"
       /\ \/ SchemaFields(s)[field.field_position] \notin CompositeTypes
          \/ field.selection_set.val.type_position
                # SchemaFields(s)[field.field_position]

\* C11: a field validated against schema s is rejected if its schema is not
\* s, if its position does not resolve in s, or if it has a sub-selection
\* whose type position differs from the composite type of its output base
\* type; otherwise its result is that of validating the sub-selection, Ok
\* when it has none.
C11_FieldCheck ==
    op.tag = "Some" =>
        \A q \in PathsOfKind("Field"), s \in Schemas, t \in CompositeTypes :
            LET field == SelectionAt(Root, q)
                r == SelectionIsWellFormed(field, s, Fragments, t)
            IN
            IF FieldRejected(field, s) THEN r.tag = "Err"
            ELSE IF field.selection_set.tag = "Some"
            THEN r = SelectionSetIsWellFormed(field.selection_set.val, s,
                                              Fragments)
            ELSE r = Ok(<<>>)

\* An operation was rejected because the sub-selection of one of its fields
\* had another type than the field's output.
C11_Witness ==
    /\ Validated
    /\ CorruptedBy({"field_selection_type"})
    /\ verdict.val.tag = "Err"
    /\ verdict.val.val.template =
        "Selection set type position mismatch: expected {:?}, got {:?}"

\* The errors that report something missing or not convertible.
SingleValueTemplates ==
    {"Field not found: {field}",
     "Fragment name not found in the given set: {}",
     "output_base_type", "try_into"}

\* C14 as stated: every error the validator returns carries an expected and
\* an actual value.
C14_AsStated ==
    (Validated /\ verdict.val.tag = "Err") =>
        Len(verdict.val.val.args) = 2

\* C14 amended: every mismatch error the validator returns (schema, type
\* position, parent type, type condition) carries the expected and the
\* actual value, which differ; the errors for a field or a fragment name that
\* is not found, and for a failed type conversion, carry only the item that
\* was looked up.
C14_MismatchErrorsCarryBoth ==
    (Validated /\ verdict.val.tag = "Err") =>
        LET e == verdict.val.val IN
        IF e.template \in SingleValueTemplates
        THEN Len(e.args) = 1
        ELSE /\ Len(e.args) = 2
             /\ e.args[1] # e.args[2]

\* An operation of another schema was rejected with both schemas in the
\* error.
C14_Witness ==
    /\ Validated
    /\ CorruptedBy({"operation_schema"})
    /\ verdict.val.tag = "Err"
    /\ verdict.val.val.args = <<target, OtherSchema(target)>>

\* C15: debug_check on a validator result: with debug assertions a failing
\* validation makes the enclosing function return that error, without
\* aborting, and a passing one lets it continue; without debug assertions
\* the validation is not evaluated and the function always continues.
C15_DebugCheck ==
    site.tag = "Some" =>
        LET o == site.val.outcome
            r == OperationIsWellFormed(op.val, target)
        IN
        /\ o.flow # "abort"
        /\ IF site.val.debug_assertions
           THEN /\ o.evaluated
                /\ r.tag = "Err" => o.flow = "return" /\ o.returned = Some(r)
                /\ r.tag = "Ok" => o.flow = "continue" /\ o.returned = None
           ELSE /\ ~o.evaluated
                /\ o.flow = "continue"
                /\ o.returned = None

\* A call site with debug assertions returned the error of a corrupted
\* operation.
C15_Witness ==
    /\ site.tag = "Some"
    /\ site.val.debug_assertions
    /\ corrupted.tag = "Some"
    /\ site.val.outcome.flow = "return"
    /\ site.val.outcome.returned.val.tag = "Err"

\* C19: the result of checking a field or a fragment spread does not depend
\* on parent_type; an operation with a field declared on another type than
\* the type position of the selection set it sits in, but defined by the
\* schema, is accepted.
C19_ParentTypeIgnored ==
    op.tag = "Some" =>
        /\ \A q \in PathsOfKind("Field") \cup PathsOfKind("FragmentSpread"),
              s \in Schemas :
                SelectionIsWellFormed(SelectionAt(Root, q), s, Fragments, "Query")
                    = SelectionIsWellFormed(SelectionAt(Root, q), s, Fragments,
                                            "User")
        /\ (Validated /\ CorruptedBy({"field_parent_type"})) =>
                verdict.val = Ok(<<>>)

\* An operation with a field of another type than its selection set was
\* accepted.
C19_Witness ==
    /\ Validated
    /\ CorruptedBy({"field_parent_type"})
    /\ \E i \in 1..Len(SetAt(corrupted.val.path).selections) :
            LET sel == SetAt(corrupted.val.path).selections[i] IN
            /\ sel.kind = "Field"
            /\ sel.field_position[1] # SetAt(corrupted.val.path).type_position
    /\ verdict.val.tag = "Ok"

\* C20: the body of a fragment definition is never checked: the result of
\* checking a spread is the same whatever the body of a definition is, and
\* an operation with a consistent tree and an ill-formed definition body is
\* accepted.
C20_DefinitionBodyNotChecked ==
    op.tag = "Some" =>
        /\ \A q \in PathsOfKind("FragmentSpread"), s \in Schemas,
              n \in DOMAIN Fragments :
                \A body \in IllFormedBodies(s,
                                Fragments[n].type_condition_position) :
                    SelectionIsWellFormed(SelectionAt(Root, q), s,
                            [Fragments EXCEPT ![n].selection_set = body], "Query")
                        = SelectionIsWellFormed(SelectionAt(Root, q), s,
                                                Fragments, "Query")
        /\ (Validated /\ CorruptedBy({"fragment_body"})) =>
                /\ verdict.val = Ok(<<>>)
                /\ SelectionSetIsWellFormed(
                        Fragments[corrupted.val.name].selection_set, target,
                        Fragments).tag = "Err"

\* An operation that spreads a fragment whose definition body is ill-formed
\* was accepted.
C20_Witness ==
    /\ Validated
    /\ CorruptedBy({"fragment_body"})
    /\ \E q \in PathsOfKind("FragmentSpread") :
            SelectionAt(Root, q).fragment_name = corrupted.val.name
    /\ verdict.val.tag = "Ok"

====
